---- MODULE Spec2Model ----
(***************************************************************************)
(* Checklist tree engine of keep-mcp-http: the list-item handlers of the   *)
(* MCP tools (src/src/server/cli.py) and of the REST endpoints             *)
(* (src/src/server/rest_api.py) over one Google Keep list.                 *)
(*                                                                         *)
(* The list is the in-memory gkeepapi List held by the cached client.      *)
(* Item ids are opaque, unique and never reused, and so are the random     *)
(* sort values the nodes get at construction: the model names each item by *)
(* the rank of its sort value.  A deleted item stays in the node tree as a *)
(* tombstone that list_obj.items filters out; no later request reads its   *)
(* fields, and the model forgets them when the request ends.               *)
(***************************************************************************)
EXTENDS Integers, Sequences, FiniteSets, TLC

\* ------------------------------------------------------------------ bounds
\* Number of ids: the items ever added to the list, deleted ones included.
MaxItems == 4
\* Number of items the requests of Spec add.
MainItems == 3
\* Number of items the requests of SpecUpdate add.
PairItems == 2

\* ------------------------------------------------------------------ state
VARIABLES
    items,        \* the nodes of the list: id -> item record
    before,       \* the nodes as the request being answered found them
    labels,       \* the names of the labels the list carries
    unsafe_mode,  \* the value of the environment variable UNSAFE_MODE
    last,         \* the request just handled and its result, until the
                  \* response is delivered; Idle between requests
    _keep_client, \* keep_api._keep_client: NoClient, or the cached client
    auth,         \* the credentials in the environment, and the calls of
                  \* get_client and of authenticate made so far
    server        \* the list as the last keep.sync() left it on the backend

vars == <<items, before, labels, unsafe_mode, last, _keep_client, auth, server>>

Ids == 1..MaxItems
\* parent_item = None
NoItem == 0
\* An id string that is the id of no item of the list.
NoSuchId == MaxItems + 1
\* The key element that t.__cmp__ ranks above every number (a missing element).
NoSort == MaxItems + 1

\* ------------------------------------------------------- text of arguments
\* A parent_item_id argument is absent (None), a text, or the id of an item.
\* Texts are sequences of characters so that lower() and strip() compute.
Upper == <<"A","B","C","D","E","F","G","H","I","J","K","L","M",
           "N","O","P","Q","R","S","T","U","V","W","X","Y","Z">>
Lower == <<"a","b","c","d","e","f","g","h","i","j","k","l","m",
           "n","o","p","q","r","s","t","u","v","w","x","y","z">>
Whitespace == {" ", "\t", "\n"}

LowerChar(c) ==
    IF \E i \in 1..Len(Upper) : Upper[i] = c
    THEN Lower[CHOOSE i \in 1..Len(Upper) : Upper[i] = c]
    ELSE c

\* str.lower()
StrLower(s) == [i \in 1..Len(s) |-> LowerChar(s[i])]

RECURSIVE LStrip(_)
LStrip(s) == IF s # <<>> /\ Head(s) \in Whitespace THEN LStrip(Tail(s)) ELSE s

RECURSIVE RStrip(_)
RStrip(s) ==
    IF s # <<>> /\ s[Len(s)] \in Whitespace
    THEN RStrip(SubSeq(s, 1, Len(s) - 1))
    ELSE s

\* str.strip()
StrStrip(s) == RStrip(LStrip(s))

NullWords == { <<"n","u","l","l">>, <<"n","o","n","e">>,
               <<"u","n","d","e","f","i","n","e","d">>, <<>> }

Absent == [kind |-> "absent"]
TextArg(s) == [kind |-> "text", chars |-> s]
IdArg(i) == [kind |-> "id", id |-> i]

\* _is_null_like(value).  An item id is a backend id ("<hex>.<hex>"), which
\* is never one of the null words.
_is_null_like(value) ==
    \/ value.kind = "absent"
    \/ /\ value.kind = "text"
       /\ StrStrip(StrLower(value.chars)) \in NullWords

\* Python truthiness of an Optional[str]: None and "" are falsy.
Truthy(value) ==
    \/ value.kind = "id"
    \/ value.kind = "text" /\ value.chars # <<>>

\* ------------------------------------------------------------ gkeepapi list
\* An id no node has yet.
Free ==
    [status |-> "free", text |-> "", checked |-> FALSE, sort |-> 0,
     parent_item |-> NoItem, subitems |-> {}]

\* A deleted node, its fields forgotten.
Tombstone(sort) ==
    [status |-> "deleted", text |-> "", checked |-> FALSE, sort |-> sort,
     parent_item |-> NoItem, subitems |-> {}]

\* ListItem(...): Node.sort is random.randint(...) at construction; the node
\* with the k-th smallest sort value of the list is the node k.
NewItem(text, checked, sort) ==
    [status |-> "live", text |-> text, checked |-> checked, sort |-> sort,
     parent_item |-> NoItem, subitems |-> {}]

Nodes(its) == {i \in Ids : its[i].status # "free"}

\* list_obj.add(text, checked): a new top-level node.
ListAdd(its, new, text, checked) ==
    [its EXCEPT ![new] = NewItem(text, checked, new)]

\* An indent that also gives the moved node a new sort value, above every
\* value handed out so far.
IndentMovingToTop(its, p, n) ==
    IF its[n].subitems # {}
    THEN its
    ELSE [i \in Ids |->
            IF i = n /\ i = p
            THEN [its[i] EXCEPT !.parent_item = p, !.subitems = {n},
                                !.sort = @ + MaxItems + 1]
            ELSE IF i = n
                 THEN [its[i] EXCEPT !.parent_item = p, !.sort = @ + MaxItems + 1]
            ELSE IF i = p THEN [its[i] EXCEPT !.subitems = @ \cup {n}]
            ELSE its[i]]

\* An indent that also re-derives the new parent's checked value from its
\* children.
IndentRecomputing(its, p, n) ==
    IF its[n].subitems # {}
    THEN its
    ELSE LET moved == [i \in Ids |->
                         IF i = n THEN [its[i] EXCEPT !.parent_item = p]
                         ELSE its[i]]
             kids == {i \in Ids : /\ moved[i].status = "live"
                                  /\ moved[i].parent_item = p}
         IN [moved EXCEPT ![p].subitems = @ \cup {n},
                          ![p].checked = \A k \in kids : moved[k].checked]

\* parent.indent(node): "Does nothing if the target has subitems."
Indent(its, p, n) ==
    IF its[n].subitems # {}
    THEN its
    ELSE [i \in Ids |->
            IF i = n /\ i = p
            THEN [its[i] EXCEPT !.parent_item = p, !.subitems = {n}]
            ELSE IF i = n THEN [its[i] EXCEPT !.parent_item = p]
            ELSE IF i = p THEN [its[i] EXCEPT !.subitems = @ \cup {n}]
            ELSE its[i]]

\* parent.dedent(node): "Does nothing if the target is not indented under
\* this item."
Dedent(its, p, n) ==
    IF n \notin its[p].subitems
    THEN its
    ELSE [i \in Ids |->
            IF i = n /\ i = p
            THEN [its[i] EXCEPT !.parent_item = NoItem, !.subitems = {}]
            ELSE IF i = n THEN [its[i] EXCEPT !.parent_item = NoItem]
            ELSE IF i = p THEN [its[i] EXCEPT !.subitems = @ \ {n}]
            ELSE its[i]]

\* item.delete(): marks the node deleted; nothing else changes.
ItemDelete(its, n) == [its EXCEPT ![n].status = "deleted"]

Live(its) == {i \in Ids : its[i].status = "live"}

\* What a later request can read of the nodes: a deleted node is reachable
\* only as a key of a former parent's _subitems.
Forget(its) ==
    [i \in Ids |-> IF its[i].status = "deleted"
                   THEN Tombstone(its[i].sort) ELSE its[i]]

\* key_func of List.sorted_items: (parent.sort, sort) for an indented item,
\* (sort,) otherwise; a missing second element ranks highest.
SortKey(its, x) ==
    IF its[x].parent_item # NoItem
    THEN <<its[its[x].parent_item].sort, its[x].sort>>
    ELSE <<its[x].sort, NoSort>>

KeyGT(a, b) == a[1] > b[1] \/ (a[1] = b[1] /\ a[2] > b[2])

\* list_obj.items: the items not deleted, sorted by key, reverse=True.
RECURSIVE SortedDesc(_, _)
SortedDesc(its, S) ==
    IF S = {} THEN <<>>
    ELSE LET top == CHOOSE x \in S :
                      \A y \in S \ {x} : KeyGT(SortKey(its, x), SortKey(its, y))
         IN <<top>> \o SortedDesc(its, S \ {top})

ListItems(its) == SortedDesc(its, Live(its))

LiveSet(all) == {all[k] : k \in 1..Len(all)}

\* ------------------------------------------------------ the cascade helpers
\* A helper's state is the node list and whether RecursionError was raised.
\* Every helper is recursive in the code: on a parent chain that closes on
\* itself the recursion never ends and Python raises RecursionError.  A call
\* chain longer than the number of nodes has revisited a node, so that is
\* where the model raises it; every assignment the unbounded recursion makes
\* has been made by then (the assignments repeat).
\* removed lists the nodes item.delete() was called on, in call order.
Running(its) == [its |-> its, err |-> FALSE, where |-> "", removed |-> <<>>]
Raise(st, where) == [st EXCEPT !.err = TRUE, !.where = where]

RECURSIVE SetAllChildren(_, _, _, _, _)
RECURSIVE ScanChildren(_, _, _, _, _, _)

\* A cascade loop that leaves out the parent test and sets every item.
ScanEveryItem(st, all, k, parent, v, depth) ==
    [st EXCEPT !.its = [i \in Ids |->
                          IF i \in LiveSet(all)
                          THEN [st.its[i] EXCEPT !.checked = v]
                          ELSE st.its[i]]]

\* The loop "for item in all_items" of _check_all_children and
\* _uncheck_all_children, from position k on.
ScanChildren(st, all, k, parent, v, depth) ==
    IF st.err \/ k > Len(all)
    THEN st
    ELSE IF st.its[all[k]].parent_item = parent
         THEN ScanChildren(
                SetAllChildren([st EXCEPT !.its[all[k]].checked = v],
                               all, all[k], v, depth + 1),
                all, k + 1, parent, v, depth)
         ELSE ScanChildren(st, all, k + 1, parent, v, depth)

SetAllChildren(st, all, parent, v, depth) ==
    IF depth > Cardinality(Nodes(st.its))
    THEN Raise(st, "_check_all_children")
    ELSE ScanChildren(st, all, 1, parent, v, depth)

\* _check_all_children(all_items, parent_item)
_check_all_children(st, all, parent) == SetAllChildren(st, all, parent, TRUE, 0)

\* _uncheck_all_children(all_items, parent_item)
_uncheck_all_children(st, all, parent) == SetAllChildren(st, all, parent, FALSE, 0)

\* The direct children of p among all_items.
ChildrenIn(its, all, p) == {x \in LiveSet(all) : its[x].parent_item = p}

\* The value _update_parent_checked_status assigns to the parent.
AllChildrenChecked(its, all, p) == \A x \in ChildrenIn(its, all, p) : its[x].checked

\* An upward recompute that stops at the first parent whose value it finds
\* unchanged.
RECURSIVE UpdateParentShortCircuit(_, _, _, _)
UpdateParentShortCircuit(st, all, child, depth) ==
    IF depth > Cardinality(Nodes(st.its))
    THEN Raise(st, "_update_parent_checked_status")
    ELSE IF st.its[child].parent_item = NoItem
         THEN st
         ELSE LET parent == st.its[child].parent_item
                  v == AllChildrenChecked(st.its, all, parent)
              IN IF ChildrenIn(st.its, all, parent) = {}
                    \/ st.its[parent].checked = v
                 THEN st
                 ELSE UpdateParentShortCircuit(
                        [st EXCEPT !.its[parent].checked = v],
                        all, parent, depth + 1)

\* An upward recompute that stops at the direct parent.
UpdateParentOnly(st, all, child, depth) ==
    IF st.its[child].parent_item = NoItem
    THEN st
    ELSE LET parent == st.its[child].parent_item
         IN IF ChildrenIn(st.its, all, parent) # {}
            THEN [st EXCEPT !.its[parent].checked =
                              AllChildrenChecked(st.its, all, parent)]
            ELSE st

RECURSIVE UpdateParentRec(_, _, _, _)
UpdateParentRec(st, all, child, depth) ==
    IF depth > Cardinality(Nodes(st.its))
    THEN Raise(st, "_update_parent_checked_status")
    ELSE IF st.its[child].parent_item = NoItem
         THEN st
         ELSE LET parent == st.its[child].parent_item
                  has_children == ChildrenIn(st.its, all, parent) # {}
              IN IF has_children
                 THEN UpdateParentRec(
                        [st EXCEPT !.its[parent].checked =
                                     AllChildrenChecked(st.its, all, parent)],
                        all, parent, depth + 1)
                 ELSE st

\* _update_parent_checked_status(all_items, child_item)
_update_parent_checked_status(st, all, child) ==
    IF st.err THEN st ELSE UpdateParentRec(st, all, child, 0)

\* _update_item_checked_with_cascade(all_items, target_item, checked)
_update_item_checked_with_cascade(st, all, target, checked) ==
    LET st1 == [st EXCEPT !.its[target].checked = checked]
        st2 == IF checked
               THEN _check_all_children(st1, all, target)
               ELSE _uncheck_all_children(st1, all, target)
    IN _update_parent_checked_status(st2, all, target)

\* A delete that removes the target and leaves its children behind.
DeleteTargetOnly(st, all, target, depth) ==
    [st EXCEPT !.its = ItemDelete(st.its, target)]

RECURSIVE DeleteRec(_, _, _, _)
RECURSIVE DeleteChildren(_, _, _, _, _)

\* The loop "for child in children_to_delete", from position k on.  The
\* children were collected from all_items before any of them was deleted.
DeleteChildren(st, all, k, target, depth) ==
    IF st.err \/ k > Len(all)
    THEN st
    ELSE IF st.its[all[k]].parent_item = target
         THEN DeleteChildren(DeleteRec(st, all, all[k], depth + 1),
                             all, k + 1, target, depth)
         ELSE DeleteChildren(st, all, k + 1, target, depth)

\* A delete that removes the target before its children.
DeleteTopDown(st, all, target, depth) ==
    IF depth > Cardinality(Nodes(st.its))
    THEN Raise(st, "_delete_item_with_children")
    ELSE DeleteChildren([st EXCEPT !.its = ItemDelete(st.its, target),
                                   !.removed = Append(@, target)],
                        all, 1, target, depth)

DeleteRec(st, all, target, depth) ==
    IF depth > Cardinality(Nodes(st.its))
    THEN Raise(st, "_delete_item_with_children")
    ELSE LET st1 == DeleteChildren(st, all, 1, target, depth)
         IN IF st1.err THEN st1
            ELSE [st1 EXCEPT !.its = ItemDelete(st1.its, target),
                             !.removed = Append(@, target)]

\* _delete_item_with_children(all_items, target_item)
_delete_item_with_children(st, all, target) == DeleteRec(st, all, target, 0)

\* ------------------------------------------------------------ authorization
\* has_keep_mcp_label(note)
has_keep_mcp_label(lbls) == \E name \in lbls : name = "keep-mcp"

\* A gate that looks at the label alone.
CanModifyLabelOnly(lbls, env) == has_keep_mcp_label(lbls)

\* can_modify_note(note)
can_modify_note(lbls, env) ==
    LET unsafe == StrLower(env) = <<"t","r","u","e">>
    IN unsafe \/ has_keep_mcp_label(lbls)

\* ------------------------------------------------------------------ lookup
\* "for item in list_obj.items: if item.id == wanted: ...; break" of the REST
\* handlers, and the parent lookups of both transports: the item, or NoItem.
FindItem(all, wanted) ==
    IF wanted.kind = "id" /\ wanted.id \in LiveSet(all) THEN wanted.id ELSE NoItem

\* The target lookup of note_update_list_item and note_delete_list_item: the
\* "if not target_item: raise" is inside the for loop, after the break test, so
\* it runs for the first item alone, and never on an empty list.
FindTargetMcp(all, item_id) ==
    IF Len(all) = 0 THEN [item |-> NoItem, raised |-> FALSE]
    ELSE IF all[1] = item_id THEN [item |-> item_id, raised |-> FALSE]
    ELSE [item |-> NoItem, raised |-> TRUE]

\* A handler's outcome: the nodes it leaves in memory, its result, the helper
\* a RecursionError came from, and whether it reached its keep.sync(), the
\* statement before the return that no raise skips over.
Outcome(its, result) ==
    [its |-> its, result |-> result, raised_in |-> "",
     synced |-> result = "ok", removed |-> <<>>]
Finish(st) ==
    [its |-> st.its, result |-> IF st.err THEN "RecursionError" ELSE "ok",
     raised_in |-> st.where, synced |-> ~st.err, removed |-> st.removed]

\* An Optional argument: None, or a value.
None == <<>>
Some(v) == <<v>>

\* The entry serialize_note emits for item i.
SerializeItem(its, i) ==
    [id |-> i, text |-> its[i].text, checked |-> its[i].checked,
     sort |-> its[i].sort, indented |-> its[i].parent_item # NoItem,
     parent_item_id |-> IF its[i].parent_item # NoItem
                        THEN Some(its[i].parent_item) ELSE None]

\* A serializer that walks every node the list ever held, deleted or not.
SerializeAllNodes(its) ==
    LET all == SortedDesc(its, Nodes(its))
    IN [k \in 1..Len(all) |-> SerializeItem(its, all[k])]

\* serialize_note(note)['items']: "for item in note.items"
serialize_note(its) ==
    LET all == ListItems(its)
    IN [k \in 1..Len(all) |-> SerializeItem(its, all[k])]

\* ---------------------------------------------------------------- handlers
\* Each handler maps the node list and its arguments to the node list it
\* leaves in memory and its result: "ok", or the error it ends in.

\* cli.py note_add_list_item (MCP tool)
note_add_list_item(its, can_modify, new_item, text, checked, parent_item_id) ==
    IF ~can_modify THEN Outcome(its, "Forbidden")
    ELSE
    LET added == ListAdd(its, new_item, text, checked)
    IN IF ~_is_null_like(parent_item_id)
       THEN LET parent_item == FindItem(ListItems(added), parent_item_id)
            IN IF parent_item # NoItem
               THEN LET indented == Indent(added, parent_item, new_item)
                    IN IF checked
                       THEN Finish(_update_parent_checked_status(
                                Running(indented), ListItems(indented), new_item))
                       ELSE Outcome(indented, "ok")
               ELSE Outcome(added, "ParentNotFound")
       ELSE Outcome(added, "ok")

\* rest_api.py add_list_item (POST /api/notes/{note_id}/lists/items)
add_list_item(its, can_modify, new_item, text, checked, parent_item_id) ==
    IF ~can_modify THEN Outcome(its, "Forbidden")
    ELSE
    LET added == ListAdd(its, new_item, text, checked)
    IN IF Truthy(parent_item_id)
       THEN LET parent_item == FindItem(ListItems(added), parent_item_id)
            IN IF parent_item # NoItem
               THEN LET indented == Indent(added, parent_item, new_item)
                    IN IF checked
                       THEN Finish(_update_parent_checked_status(
                                Running(indented), ListItems(indented), new_item))
                       ELSE Outcome(indented, "ok")
               ELSE Outcome(added, "ParentNotFound")
       ELSE Outcome(added, "ok")

\* "if text is not None: target_item.text = text"
SetText(its, target, text) ==
    IF text # None THEN [its EXCEPT ![target].text = text[1]] ELSE its

\* "if checked is not None: _update_item_checked_with_cascade(...)"
SetChecked(its, target, checked) ==
    IF checked # None
    THEN _update_item_checked_with_cascade(Running(its), ListItems(its),
                                           target, checked[1])
    ELSE Running(its)

\* "if target_item.parent_item: target_item.parent_item.dedent(target_item)"
DedentTarget(its, target) ==
    IF its[target].parent_item # NoItem
    THEN Dedent(its, its[target].parent_item, target)
    ELSE its

\* cli.py note_update_list_item (MCP tool)
note_update_list_item(its, can_modify, item_id, text, checked, parent_item_id) ==
    IF ~can_modify THEN Outcome(its, "Forbidden")
    ELSE
    LET found == FindTargetMcp(ListItems(its), item_id)
        target_item == found.item
    IN IF found.raised THEN Outcome(its, "ItemNotFound")
       ELSE IF target_item = NoItem
       THEN \* the list is empty and target_item is None
            IF text # None \/ checked # None THEN Outcome(its, "AttributeError")
            ELSE IF ~_is_null_like(parent_item_id)
                 THEN Outcome(its, "ParentNotFound")
                 ELSE Outcome(its, "AttributeError")
       ELSE
       LET st == SetChecked(SetText(its, target_item, text), target_item, checked)
       IN IF st.err THEN Finish(st)
          ELSE IF ~_is_null_like(parent_item_id)
               THEN LET new_parent == FindItem(ListItems(st.its), parent_item_id)
                    IN IF new_parent = NoItem
                       THEN Outcome(st.its, "ParentNotFound")
                       ELSE Outcome(Indent(st.its, new_parent, target_item), "ok")
               ELSE Outcome(DedentTarget(st.its, target_item), "ok")

\* rest_api.py update_list_item (PUT /api/notes/{note_id}/lists/items/{item_id})
update_list_item(its, can_modify, item_id, text, checked, parent_item_id) ==
    IF ~can_modify THEN Outcome(its, "Forbidden")
    ELSE
    LET target_item == FindItem(ListItems(its), IdArg(item_id))
    IN IF target_item = NoItem THEN Outcome(its, "ItemNotFound")
       ELSE
       LET st == SetChecked(SetText(its, target_item, text), target_item, checked)
       IN IF st.err THEN Finish(st)
          ELSE IF parent_item_id.kind # "absent"
               THEN IF Truthy(parent_item_id)
                    THEN LET new_parent ==
                                 FindItem(ListItems(st.its), parent_item_id)
                         IN IF new_parent = NoItem
                            THEN Outcome(st.its, "ParentNotFound")
                            ELSE Outcome(Indent(st.its, new_parent, target_item),
                                         "ok")
                    ELSE Outcome(DedentTarget(st.its, target_item), "ok")
               ELSE Outcome(st.its, "ok")

\* A delete that re-derives the parent from its remaining children whatever
\* the deleted item's checked value was.
DeleteAndRecompute(its, target_item) ==
    LET parent_item == its[target_item].parent_item
        st == _delete_item_with_children(Running(its), ListItems(its),
                                         target_item)
        all == ListItems(st.its)
    IN IF st.err \/ parent_item = NoItem \/ ChildrenIn(st.its, all, parent_item) = {}
       THEN Finish(st)
       ELSE Finish([st EXCEPT !.its[parent_item].checked =
                                  AllChildrenChecked(st.its, all, parent_item)])

\* "parent_item = target_item.parent_item; _delete_item_with_children(...);
\*  if parent_item and target_item.checked: _update_parent_checked_status(
\*  list_obj.items, parent_item)", the same in both transports.
DeleteAndUpdate(its, target_item) ==
    LET parent_item == its[target_item].parent_item
        st == _delete_item_with_children(Running(its), ListItems(its),
                                         target_item)
    IN IF st.err THEN Finish(st)
       ELSE IF parent_item # NoItem /\ st.its[target_item].checked
            THEN Finish(_update_parent_checked_status(
                            st, ListItems(st.its), parent_item))
            ELSE Finish(st)

\* cli.py note_delete_list_item (MCP tool)
note_delete_list_item(its, can_modify, item_id) ==
    IF ~can_modify THEN Outcome(its, "Forbidden")
    ELSE
    LET found == FindTargetMcp(ListItems(its), item_id)
    IN IF found.raised THEN Outcome(its, "ItemNotFound")
       ELSE IF found.item = NoItem
       THEN \* the list is empty: None.parent_item
            Outcome(its, "AttributeError")
       ELSE DeleteAndUpdate(its, found.item)

\* rest_api.py delete_list_item (DELETE /api/notes/{note_id}/lists/items/{item_id})
delete_list_item(its, can_modify, item_id) ==
    IF ~can_modify THEN Outcome(its, "Forbidden")
    ELSE
    LET target_item == FindItem(ListItems(its), IdArg(item_id))
    IN IF target_item = NoItem THEN Outcome(its, "ItemNotFound")
       ELSE DeleteAndUpdate(its, target_item)

\* ------------------------------------------------------------------ inputs
\* The texts a caller sends for "no parent": the empty string and a null word.
NullForms == { <<>>, <<"N","o","n","e">> }

\* The parent_item_id arguments: a null form, the id of an item of the list,
\* an id of no item (a deleted item's id is one: list_obj.items leaves it out).
ParentArgs(its) ==
    {TextArg(s) : s \in NullForms}
        \cup {IdArg(i) : i \in Live(its) \cup {NoSuchId}}

ItemArgs(its) == Live(its) \cup {NoSuchId}

Request(op, tr, item_id, text, checked, parent_item_id, out) ==
    [op |-> op, tr |-> tr, item_id |-> item_id, text |-> text,
     checked |-> checked, parent_item_id |-> parent_item_id,
     result |-> out.result, raised_in |-> out.raised_in,
     synced |-> out.synced, removed |-> out.removed,
     body |-> IF out.result = "ok" THEN serialize_note(out.its) ELSE <<>>]

\* No request is being answered.
Idle == Request("none", "none", NoItem, None, None, Absent, Outcome(<<>>, "none"))

CanModify == can_modify_note(labels, unsafe_mode)

\* ------------------------------------------------------------- the client
\* _keep_client = None
NoClient == 0

\* GOOGLE_EMAIL / GOOGLE_MASTER_TOKEN: not both set, set and refused by
\* keep.authenticate, set and accepted.
CredentialValues == {"missing", "rejected", "accepted"}

\* A get_client that stores the client before authenticating it.
GetClientStoringFirst(cached, credentials, logins) ==
    IF cached # NoClient
    THEN [_keep_client |-> cached, result |-> "client", client |-> cached,
          authenticated |-> FALSE]
    ELSE IF credentials = "missing"
    THEN [_keep_client |-> NoClient, result |-> "ValueError",
          client |-> NoClient, authenticated |-> FALSE]
    ELSE IF credentials = "rejected"
    THEN [_keep_client |-> logins + 1, result |-> "LoginException",
          client |-> NoClient, authenticated |-> TRUE]
    ELSE [_keep_client |-> logins + 1, result |-> "client",
          client |-> logins + 1, authenticated |-> TRUE]

\* get_client(): the value of _keep_client it leaves, what it returns or
\* raises, and whether it called keep.authenticate.  The k-th Keep() object
\* that authenticate is called on is the client k.
get_client(cached, credentials, logins) ==
    IF cached # NoClient
    THEN [_keep_client |-> cached, result |-> "client", client |-> cached,
          authenticated |-> FALSE]
    ELSE IF credentials = "missing"
    THEN [_keep_client |-> NoClient, result |-> "ValueError",
          client |-> NoClient, authenticated |-> FALSE]
    ELSE IF credentials = "rejected"
    THEN [_keep_client |-> NoClient, result |-> "LoginException",
          client |-> NoClient, authenticated |-> TRUE]
    ELSE [_keep_client |-> logins + 1, result |-> "client",
          client |-> logins + 1, authenticated |-> TRUE]

\* No call of get_client was made yet.
NoCall ==
    [_keep_client |-> NoClient, result |-> "none", client |-> NoClient,
     authenticated |-> FALSE]

\* The server with its client set up: the state the list-item handlers,
\* which start with keep = get_client(), run in.
Connected ==
    [credentials |-> "accepted", logins |-> 1, calls |-> 1,
     returned |-> get_client(NoClient, "accepted", 0)]

\* The backend copy is followed in SpecSync alone.
Untracked == [tracked |-> FALSE, its |-> <<>>]

\* ----------------------------------------------------------------- actions
Init ==
    /\ items = [i \in Ids |-> Free]
    /\ before = items
    /\ labels \in {{}, {"keep-mcp"}}
    /\ unsafe_mode = <<>>
    /\ last = Idle
    /\ _keep_client = Connected.returned._keep_client
    /\ auth = Connected
    /\ server = Untracked

\* A handler runs to completion on the list in memory (spec section 5: one
\* request at a time), and its result goes back to the caller.
Handled(out, req) ==
    /\ last = Idle
    /\ items' = Forget(out.its)
    /\ before' = items
    /\ last' = req
    /\ server' = IF server.tracked /\ out.synced
                 THEN [tracked |-> TRUE, its |-> Forget(out.its)]
                 ELSE server
    /\ UNCHANGED <<labels, unsafe_mode, _keep_client, auth>>

\* Add(text, checked, parent_id?) through transport tr; the new node is `new`.
Add(tr, new, text, checked, parent) ==
    /\ items[new].status = "free"
    /\ LET out == IF tr = "mcp"
                  THEN note_add_list_item(items, CanModify, new, text, checked,
                                          parent)
                  ELSE add_list_item(items, CanModify, new, text, checked,
                                     parent)
       IN Handled(out, Request("add", tr,
                               IF out.its[new].status = "free"
                               THEN NoItem ELSE new,
                               Some(text), Some(checked), parent, out))

\* An update request through transport tr.
Update(tr, item_id, text, checked, parent) ==
    LET out == IF tr = "mcp"
               THEN note_update_list_item(items, CanModify, item_id, text,
                                          checked, parent)
               ELSE update_list_item(items, CanModify, item_id, text,
                                     checked, parent)
    IN Handled(out, Request("update", tr, item_id, text, checked, parent,
                            out))

\* Delete(id) through transport tr.
Delete(tr, item_id) ==
    LET out == IF tr = "mcp"
               THEN note_delete_list_item(items, CanModify, item_id)
               ELSE delete_list_item(items, CanModify, item_id)
    IN Handled(out, Request("delete", tr, item_id, None, None, Absent,
                            out))

McpAdd ==
    \E new \in 1..MainItems, checked \in BOOLEAN,
       parent \in {Absent} \cup ParentArgs(items) :
        Add("mcp", new, "a", checked, parent)

RestAdd ==
    \E new \in 1..MainItems, checked \in BOOLEAN,
       parent \in {Absent} \cup ParentArgs(items) :
        Add("rest", new, "a", checked, parent)

\* UpdateText(id, text): an update request with text alone.
McpUpdateText ==
    \E item_id \in ItemArgs(items) :
        Update("mcp", item_id, Some("a"), None, Absent)

RestUpdateText ==
    \E item_id \in ItemArgs(items) :
        Update("rest", item_id, Some("a"), None, Absent)

\* UpdateChecked(id, checked): an update request with checked alone.
McpUpdateChecked ==
    \E item_id \in ItemArgs(items), checked \in BOOLEAN :
        Update("mcp", item_id, None, Some(checked), Absent)

RestUpdateChecked ==
    \E item_id \in ItemArgs(items), checked \in BOOLEAN :
        Update("rest", item_id, None, Some(checked), Absent)

\* Reparent(id, new_parent_id?): an update request with parent_item_id alone.
McpReparent ==
    \E item_id \in ItemArgs(items), parent \in ParentArgs(items) :
        Update("mcp", item_id, None, None, parent)

RestReparent ==
    \E item_id \in ItemArgs(items), parent \in ParentArgs(items) :
        Update("rest", item_id, None, None, parent)

McpDelete == \E item_id \in ItemArgs(items) : Delete("mcp", item_id)

RestDelete == \E item_id \in ItemArgs(items) : Delete("rest", item_id)

\* The response reaches the caller; the server waits for the next request.
Respond ==
    /\ last # Idle
    /\ last' = Idle
    /\ before' = items
    /\ UNCHANGED <<items, labels, unsafe_mode, _keep_client, auth, server>>

Next ==
    \/ Respond
    \/ McpAdd
    \/ RestAdd
    \/ McpUpdateText
    \/ RestUpdateText
    \/ McpUpdateChecked
    \/ RestUpdateChecked
    \/ McpReparent
    \/ RestReparent
    \/ McpDelete
    \/ RestDelete

Spec == Init /\ [][Next]_vars

\* Sequences of Add / UpdateChecked / Delete requests.
NextChecked ==
    \/ Respond
    \/ McpAdd
    \/ RestAdd
    \/ McpUpdateChecked
    \/ RestUpdateChecked
    \/ McpDelete
    \/ RestDelete

SpecChecked == Init /\ [][NextChecked]_vars

\* A list of up to MaxItems items built through the REST endpoint, and
\* UpdateChecked requests on it.
DeepAdd ==
    \E new \in Ids, checked \in BOOLEAN,
       parent \in {Absent} \cup {IdArg(i) : i \in Live(items)} :
        Add("rest", new, "a", checked, parent)

NextDeep ==
    \/ Respond
    \/ DeepAdd
    \/ McpUpdateChecked
    \/ RestUpdateChecked

SpecDeep == Init /\ [][NextDeep]_vars

\* ------------------------------------------------------ the tree of a list
\* children(X) = { item | item.parent_id == X.id }
Kids(its, p) == {x \in Live(its) : its[x].parent_item = p}

RECURSIVE Below(_, _, _)
Below(its, S, n) ==
    IF n = 0 THEN S
    ELSE Below(its, S \cup {y \in Live(its) : its[y].parent_item \in S}, n - 1)

\* The children, grandchildren, ... of x.
Descendants(its, x) == Below(its, Kids(its, x), MaxItems)

RECURSIVE Above(_, _, _)
Above(its, S, n) ==
    IF n = 0 THEN S
    ELSE Above(its, S \cup ({its[y].parent_item : y \in S} \ {NoItem}), n - 1)

\* The parent, grandparent, ... of x.
Ancestors(its, x) == Above(its, {its[x].parent_item} \ {NoItem}, MaxItems)

\* checked == AND(child.checked for child in children), for an item with children
Consistent(its, p) ==
    Kids(its, p) # {} => (its[p].checked <=> \A c \in Kids(its, p) : its[c].checked)

Answered(op) == last.op = op /\ last.result = "ok"

\* UpdateChecked(id, v): an update request with checked alone.
IsUpdateChecked ==
    /\ last.op = "update"
    /\ last.checked # None
    /\ last.text = None
    /\ last.parent_item_id = Absent

\* ------------------------------------------------------------------ claims
\* C1: after each request of a sequence of Add / UpdateChecked / Delete
\* requests, every item with at least one child has checked equal to the AND
\* of its direct children's checked values.
C1_CheckedConsistency == \A p \in Live(items) : Consistent(items, p)

\* The request named an item of the list and the list may be modified.
OnPresentItem == CanModify /\ last.item_id \in Live(before)

\* C2: UpdateChecked(X, v) on an item X of the list leaves checked = v on X and
\* on every descendant of X, at every depth, for v = true and v = false.
C2_DownwardCascade ==
    (IsUpdateChecked /\ OnPresentItem) =>
        \A x \in {last.item_id} \cup Descendants(before, last.item_id) :
            items[x].checked = last.checked[1]

\* C3: after an UpdateChecked(id, v) that completes, every item that was an
\* ancestor of the target before the request has checked equal to the AND of
\* its current direct children.
C3_AncestorsRecomputed ==
    (IsUpdateChecked /\ OnPresentItem /\ last.result = "ok") =>
        \A a \in Ancestors(before, last.item_id) : Consistent(items, a)

\* C4: after Delete(X) of an item X of the list, neither X nor any former
\* descendant of X is in the list, every other item is still there, and no
\* remaining item's parent is a deleted item.
C4_DeleteCompleteness ==
    (last.op = "delete" /\ OnPresentItem) =>
        LET gone == {last.item_id} \cup Descendants(before, last.item_id)
        IN  /\ Live(items) = Live(before) \ gone
            /\ \A y \in Live(items) : items[y].parent_item \notin gone

\* C5: after Delete(id) of an item whose parent P still has a child, P and
\* every ancestor of P has checked equal to the AND of its remaining children,
\* whether the deleted item was checked or not.
C5_DeleteRecomputesParent ==
    (last.op = "delete" /\ OnPresentItem /\ last.result = "ok") =>
        \A a \in Ancestors(before, last.item_id) : Consistent(items, a)

\* C6: a Reparent(id, new_parent_id) whose new parent is id itself or a
\* descendant of id fails with CycleWouldForm and leaves every item's parent
\* and checked value unchanged.
C6_CycleRejected ==
    ( /\ last.op = "update" /\ OnPresentItem
      /\ last.parent_item_id.kind = "id"
      /\ last.parent_item_id.id \in
            {last.item_id} \cup Descendants(before, last.item_id) ) =>
        /\ last.result = "CycleWouldForm"
        /\ \A i \in Ids : /\ items[i].parent_item = before[i].parent_item
                          /\ items[i].checked = before[i].checked

\* C7: no item is ever its own ancestor.
C7_Acyclic == \A x \in Live(items) : x \notin Ancestors(items, x)

\* C8: after every request, the ones that end in an error included, every
\* non-null parent of an item of the list is an item of the list.
C8_Existence ==
    \A x \in Live(items) :
        items[x].parent_item # NoItem => items[x].parent_item \in Live(items)

\* C8 witness: a nested item was deleted with its own child while its parent
\* stays in the list.
C8_Witness ==
    /\ Answered("delete")
    /\ before[last.item_id].parent_item \in Live(items)
    /\ Kids(before, last.item_id) # {}
    /\ Kids(before, last.item_id) \cap Live(items) = {}

\* C9: the upward recompute started by Add, UpdateChecked or Delete never
\* runs past the item count: a traversal that would do so ends with
\* CycleDetected.
C9_UpwardTerminates ==
    last.raised_in = "_update_parent_checked_status" =>
        last.result = "CycleDetected"

\* C10: an Add whose parent_item_id is null-like ("null", "None",
\* "UNDEFINED", "", any letter case, surrounding whitespace) or absent
\* succeeds and the new item is top-level, through both transports.
C10_NullLikeAdd ==
    (last.op = "add" /\ CanModify /\ _is_null_like(last.parent_item_id)) =>
        /\ last.result = "ok"
        /\ last.item_id # NoItem
        /\ items[last.item_id].status = "live"
        /\ items[last.item_id].parent_item = NoItem

\* C11: an update whose parent_item_id is a textual null-like form detaches
\* the target and never ends in ParentNotFound, through both transports.
C11_NullLikeReparent ==
    ( /\ last.op = "update" /\ OnPresentItem
      /\ last.parent_item_id.kind = "text"
      /\ _is_null_like(last.parent_item_id) ) =>
        /\ last.result # "ParentNotFound"
        /\ items[last.item_id].parent_item = NoItem

\* C12: an Add whose parent id matches no item of the list fails with
\* ParentNotFound and the list is exactly as before the call.
C12_AddParentNotFoundAtomic ==
    ( /\ last.op = "add" /\ CanModify
      /\ last.parent_item_id.kind = "id"
      /\ last.parent_item_id.id \notin Live(before) ) =>
        /\ last.result = "ParentNotFound"
        /\ items = before

\* C14: update and delete fail with ItemNotFound, leaving the list unchanged,
\* exactly when no item of the list has the given id; an id that is present
\* is found at any position, and an empty list gives ItemNotFound.
C14_ItemLookup ==
    (last.op \in {"update", "delete"} /\ CanModify) =>
        /\ last.result = "ItemNotFound" <=> last.item_id \notin Live(before)
        /\ last.result = "ItemNotFound" => items = before

\* C15: an update that omits parent_item_id leaves the parent of the target
\* and of every other item as it was.
C15_OmittedParentKeepsNesting ==
    (last.op = "update" /\ last.parent_item_id = Absent) =>
        \A i \in Ids : items[i].parent_item = before[i].parent_item

\* Update requests that carry any combination of text, checked and
\* parent_item_id, on a list built through the REST endpoint.
PlainAdd ==
    \E new \in 1..PairItems, checked \in BOOLEAN,
       parent \in {Absent} \cup {IdArg(i) : i \in Live(items)} :
        Add("rest", new, "a", checked, parent)

McpUpdateAny ==
    \E item_id \in ItemArgs(items), text \in {None, Some("b")},
       checked \in {None, Some(TRUE), Some(FALSE)},
       parent \in {Absent} \cup ParentArgs(items) :
        Update("mcp", item_id, text, checked, parent)

RestUpdateAny ==
    \E item_id \in ItemArgs(items), text \in {None, Some("b")},
       checked \in {None, Some(TRUE), Some(FALSE)},
       parent \in {Absent} \cup ParentArgs(items) :
        Update("rest", item_id, text, checked, parent)

NextUpdate ==
    \/ Respond
    \/ PlainAdd
    \/ McpUpdateAny
    \/ RestUpdateAny

SpecUpdate == Init /\ [][NextUpdate]_vars

\* C13: an update that names a new parent id absent from the list fails with
\* ParentNotFound and leaves the list exactly as before the call, also when
\* the request carries a new text or a new checked value.
C13_UpdateParentNotFoundAtomic ==
    ( /\ last.op = "update" /\ OnPresentItem
      /\ last.parent_item_id.kind = "id"
      /\ last.parent_item_id.id \notin Live(before) ) =>
        /\ last.result = "ParentNotFound"
        /\ items = before

\* Lists with and without the label, under several settings of UNSAFE_MODE;
\* the user changes the labels of the list between requests.
EnvValues ==
    { <<>>, <<"t","r","u","e">>, <<"T","R","U","E">>, <<"f","a","l","s","e">> }

LabelSets == SUBSET {"keep-mcp", "other"}

InitAuth ==
    /\ items = [i \in Ids |-> Free]
    /\ before = items
    /\ labels \in LabelSets
    /\ unsafe_mode \in EnvValues
    /\ last = Idle
    /\ _keep_client = Connected.returned._keep_client
    /\ auth = Connected
    /\ server = Untracked

Relabel ==
    /\ last = Idle
    /\ \E l \in LabelSets : l # labels /\ labels' = l
    /\ UNCHANGED <<items, before, unsafe_mode, last, _keep_client, auth, server>>

NextAuth ==
    \/ Respond
    \/ Relabel
    \/ McpAdd
    \/ RestAdd
    \/ McpUpdateChecked
    \/ RestUpdateChecked
    \/ McpDelete
    \/ RestDelete

SpecAuth == InitAuth /\ [][NextAuth]_vars

IsMutation == last.op \in {"add", "update", "delete"}

Rejected == last.result = "Forbidden" /\ items = before /\ ~last.synced

\* C16: when the list carries no 'keep-mcp' label and UNSAFE_MODE is not
\* 'true', every add, update and delete through either transport is rejected
\* with the items unchanged and no sync; when the label is present or
\* UNSAFE_MODE is 'true' the gate never rejects.
C16_AuthGate ==
    IsMutation =>
        IF "keep-mcp" \notin labels /\ unsafe_mode # <<"t","r","u","e">>
        THEN Rejected
        ELSE last.result # "Forbidden"

\* C16 as amended: UNSAFE_MODE is compared ignoring letter case.
C16_AuthGateAnyCase ==
    IsMutation =>
        IF "keep-mcp" \notin labels /\ StrLower(unsafe_mode) # <<"t","r","u","e">>
        THEN Rejected
        ELSE last.result # "Forbidden"

\* C16 witness: a delete of an item of the list is rejected on a list whose
\* label was removed.
C16_Witness ==
    /\ last.op = "delete" /\ last.result = "Forbidden"
    /\ last.item_id \in Live(items)
    /\ unsafe_mode = <<"f","a","l","s","e">>

\* Reparent(id, new_parent_id?): an update request with parent_item_id alone.
IsReparent ==
    /\ last.op = "update"
    /\ last.text = None
    /\ last.checked = None
    /\ last.parent_item_id # Absent

\* C17: after a Reparent that completes, the former parent and the new parent
\* of the moved item, when they have a child, have checked equal to the AND
\* of their current children.
C17_ReparentConsistency ==
    (IsReparent /\ OnPresentItem /\ last.result = "ok") =>
        \A p \in {before[last.item_id].parent_item,
                  items[last.item_id].parent_item} \ {NoItem} :
            Consistent(items, p)

\* C18: a Reparent changes nothing but the parent of its target: every
\* item's checked value and text, and every other item's parent, are as
\* before the call.
C18_ReparentFrame ==
    IsReparent =>
        \A i \in Ids :
            /\ items[i].checked = before[i].checked
            /\ items[i].text = before[i].text
            /\ items[i].status = before[i].status
            /\ i # last.item_id => items[i].parent_item = before[i].parent_item

\* C18 witness: a checked item was moved under an unchecked item that had no
\* child, and the new parent is still unchecked.
C18_Witness ==
    /\ IsReparent /\ last.result = "ok"
    /\ items[last.item_id].parent_item # NoItem
    /\ items[last.item_id].parent_item # last.item_id
    /\ items[last.item_id].parent_item # before[last.item_id].parent_item
    /\ Kids(before, items[last.item_id].parent_item) = {}
    /\ items[last.item_id].checked
    /\ ~items[items[last.item_id].parent_item].checked

\* C19: after an Add of a checked item under a present item P, the new item
\* is a child of P, and P and every ancestor of P have checked equal to the
\* AND of their children; an Add with checked = false or without a parent
\* changes the checked value of no existing item.
C19_AddCheckedChild ==
    (last.op = "add" /\ CanModify) =>
        IF /\ last.checked = Some(TRUE)
           /\ last.parent_item_id.kind = "id"
           /\ last.parent_item_id.id \in Live(before)
        THEN LET P == last.parent_item_id.id
             IN /\ last.item_id # NoItem
                /\ items[last.item_id].status = "live"
                /\ items[last.item_id].parent_item = P
                /\ \A a \in {P} \cup Ancestors(before, P) : Consistent(items, a)
        ELSE (last.checked = Some(FALSE) \/ _is_null_like(last.parent_item_id)) =>
                \A i \in Live(before) : items[i].checked = before[i].checked

\* C19 witness: the checked child completed its parent, and the parent its
\* own parent: both ancestors went from unchecked to checked.
C19_Witness ==
    /\ Answered("add") /\ last.checked = Some(TRUE)
    /\ last.parent_item_id.kind = "id"
    /\ LET P == last.parent_item_id.id
       IN /\ P \in Live(before)
          /\ ~before[P].checked /\ items[P].checked
          /\ before[P].parent_item \notin {NoItem, P}
          /\ ~before[before[P].parent_item].checked
          /\ items[before[P].parent_item].checked

\* C20: when a checked item with parent P is deleted, P is re-derived from
\* its remaining children, from every reachable state, also one where P was
\* not consistent with its children before the delete.
C20_DeleteRecomputeStartsAtParent ==
    ( /\ last.op = "delete" /\ OnPresentItem /\ last.result = "ok"
      /\ before[last.item_id].checked
      /\ before[last.item_id].parent_item # NoItem ) =>
        Consistent(items, before[last.item_id].parent_item)

\* C21: deleting an item whose checked value is false changes the checked
\* value of no remaining item.
C21_DeleteUncheckedFrame ==
    ( /\ last.op = "delete"
      /\ last.item_id \in Live(before)
      /\ ~before[last.item_id].checked ) =>
        \A i \in Live(items) : items[i].checked = before[i].checked

\* C21 witness: the only unchecked child of an unchecked parent was deleted,
\* and the parent, left with checked children alone, is still unchecked.
C21_Witness ==
    /\ Answered("delete")
    /\ last.item_id \in Live(before)
    /\ ~before[last.item_id].checked
    /\ LET P == before[last.item_id].parent_item
       IN /\ P \in Live(items)
          /\ Kids(items, P) # {}
          /\ \A c \in Kids(items, P) : items[c].checked
          /\ ~items[P].checked

\* C22: UpdateChecked(id, v) changes the checked value only of the target,
\* of its descendants and of its ancestors; every other item keeps its
\* checked value, and no item's text or sort changes.
C22_UpdateCheckedFrame ==
    IsUpdateChecked =>
        LET touched ==
              IF last.item_id \in Live(before)
              THEN {last.item_id} \cup Descendants(before, last.item_id)
                                  \cup Ancestors(before, last.item_id)
              ELSE {}
        IN \A i \in Ids :
              /\ i \notin touched => items[i].checked = before[i].checked
              /\ items[i].text = before[i].text
              /\ items[i].sort = before[i].sort

\* C22 witness: the target's value changed, its parent was re-derived to a
\* new value, and a sibling with the other value kept it.
C22_Witness ==
    /\ IsUpdateChecked /\ last.result = "ok"
    /\ last.item_id \in Live(before)
    /\ items[last.item_id].checked # before[last.item_id].checked
    /\ LET P == before[last.item_id].parent_item
       IN /\ P \in Live(before)
          /\ items[P].checked # before[P].checked
          /\ \E sib \in Kids(before, P) \ {last.item_id} :
                /\ items[sib].checked = before[sib].checked
                /\ items[sib].checked # items[last.item_id].checked

\* An update request with text alone.
IsUpdateText ==
    /\ last.op = "update"
    /\ last.text # None
    /\ last.checked = None
    /\ last.parent_item_id = Absent

\* C23: an update that supplies only text replaces the text of its target
\* and changes no item's checked value and no other item's text.
C23_UpdateTextNoCascade ==
    (IsUpdateText /\ OnPresentItem) =>
        /\ items[last.item_id].text = last.text[1]
        /\ \A i \in Ids : items[i].checked = before[i].checked
        /\ \A i \in Ids \ {last.item_id} : items[i].text = before[i].text

\* C24: during Delete(X) items are removed children before parents and X
\* last: after each removal of the cascade no item still present has a parent
\* that was already removed.
C24_BottomUpDelete ==
    last.op = "delete" =>
        LET r == last.removed
        IN /\ \A k \in 1..Len(r) :
                LET gone == {r[j] : j \in 1..k}
                IN \A y \in Live(before) \ gone : before[y].parent_item \notin gone
           /\ last.result = "ok" => (Len(r) > 0 /\ r[Len(r)] = last.item_id)

\* C24 witness: a three-level chain was deleted: grandchild, child, target.
C24_Witness ==
    /\ Answered("delete")
    /\ Len(last.removed) = 3
    /\ before[last.removed[1]].parent_item = last.removed[2]
    /\ before[last.removed[2]].parent_item = last.removed[3]

\* The list after the request being answered is applied to it once more.
AgainItems ==
    LET out == IF last.tr = "mcp"
               THEN note_update_list_item(items, CanModify, last.item_id,
                                          last.text, last.checked,
                                          last.parent_item_id)
               ELSE update_list_item(items, CanModify, last.item_id,
                                     last.text, last.checked,
                                     last.parent_item_id)
    IN Forget(out.its)

\* The list after the upward recompute is run from item c.
Recomputed(its, c) ==
    _update_parent_checked_status(Running(its), ListItems(its), c).its

\* C25: the upward recompute re-derives every ancestor from its current
\* children, also above an ancestor whose value did not change; running it a
\* second time from the same item, or applying UpdateChecked(id, v) a second
\* time, leaves the list as the first run left it.  The recompute is run
\* from every item of every list the server holds between two requests.
C25_RecomputeIdempotent ==
    /\ last = Idle =>
          \A c \in Live(items) :
              /\ \A a \in Ancestors(items, c) :
                    Consistent(Recomputed(items, c), a)
              /\ Recomputed(Recomputed(items, c), c) = Recomputed(items, c)
    /\ IsUpdateChecked => AgainItems = items

\* C25 witness: an UpdateChecked left the target's parent at its value and
\* changed the value of the parent's parent.
C25_Witness ==
    /\ IsUpdateChecked /\ last.result = "ok"
    /\ last.item_id \in Live(before)
    /\ LET P == before[last.item_id].parent_item
       IN /\ P \in Live(before)
          /\ items[P].checked = before[P].checked
          /\ before[P].parent_item \in Live(before) \ {P}
          /\ items[before[P].parent_item].checked
                # before[before[P].parent_item].checked

\* C26: the items a successful request returns are exactly the items of the
\* list it leaves, one entry each and none for a deleted item, with the
\* item's id, text, checked and sort, and with parent_item_id the parent's id
\* for a nested item and null exactly for a top-level item.
C26_SerializerProjection ==
    (last.op # "none" /\ last.result = "ok") =>
        LET b == last.body
        IN /\ Len(b) = Cardinality(Live(items))
           /\ {b[k].id : k \in 1..Len(b)} = Live(items)
           /\ \A k \in 1..Len(b) :
                LET i == b[k].id
                IN /\ b[k].text = items[i].text
                   /\ b[k].checked = items[i].checked
                   /\ b[k].sort = items[i].sort
                   /\ b[k].parent_item_id = None <=> items[i].parent_item = NoItem
                   /\ items[i].parent_item # NoItem =>
                          b[k].parent_item_id = Some(items[i].parent_item)

\* C26 witness: the response to a delete lists a nested item and its parent,
\* and not the deleted item.
C26_Witness ==
    /\ Answered("delete")
    /\ \E k \in 1..Len(last.body) :
          /\ last.body[k].parent_item_id # None
          /\ last.body[k].parent_item_id # Some(last.body[k].id)
    /\ \A k \in 1..Len(last.body) : last.body[k].id # last.item_id

\* The position of item x in the list all.
Pos(all, x) == CHOOSE k \in 1..Len(all) : all[k] = x

\* x and y are items of the list with the same parent.
Siblings(its, x, y) ==
    /\ x \in Live(its) /\ y \in Live(its) /\ x # y
    /\ its[x].parent_item = its[y].parent_item

\* C27: no request changes the sort value of an item that already exists,
\* and two items that remain siblings under the same parent are listed in
\* the same relative order before and after every request.
C27_SiblingOrderStable ==
    last.op # "none" =>
        /\ \A i \in Nodes(before) : items[i].sort = before[i].sort
        /\ \A x, y \in Ids :
              ( /\ Siblings(before, x, y) /\ Siblings(items, x, y)
                /\ items[x].parent_item = before[x].parent_item ) =>
                  ( Pos(ListItems(before), x) < Pos(ListItems(before), y)
                    <=> Pos(ListItems(items), x) < Pos(ListItems(items), y) )

\* C27 witness: a third item was moved under one of two siblings, which
\* changes where that sibling's subtree is listed, and the two remain
\* siblings.
C27_Witness ==
    /\ IsReparent /\ last.result = "ok"
    /\ last.item_id \in Live(before)
    /\ items[last.item_id].parent_item # before[last.item_id].parent_item
    /\ \E x, y \in Ids \ {last.item_id} :
          /\ Siblings(before, x, y) /\ Siblings(items, x, y)
          /\ items[last.item_id].parent_item = x

\* ------------------------------------------------- the client's life cycle
\* The calls of get_client followed from a server that has no client yet.
MaxCalls == 5

InitClient ==
    /\ items = [i \in Ids |-> Free]
    /\ before = items
    /\ labels = {"keep-mcp"}
    /\ unsafe_mode = <<>>
    /\ last = Idle
    /\ _keep_client = NoClient
    /\ auth = [credentials |-> "missing", logins |-> 0, calls |-> 0,
               returned |-> NoCall]
    /\ server = Untracked

\* One call of get_client, by whichever handler makes it.
Call ==
    LET got == get_client(_keep_client, auth.credentials, auth.logins)
    IN  /\ auth.calls < MaxCalls
        /\ _keep_client' = got._keep_client
        /\ auth' = [auth EXCEPT
                      !.calls = @ + 1,
                      !.logins = IF got.authenticated THEN @ + 1 ELSE @,
                      !.returned = got]

\* keep = get_client() at the head of a list-item handler.
Connect ==
    /\ Call
    /\ UNCHANGED <<items, before, labels, unsafe_mode, last, server>>

\* GET /api/health: get_client() inside try/except; the answer is
\* "healthy" iff the call returned a client.
health_check ==
    /\ Call
    /\ last' = [Idle EXCEPT !.op = "health",
                  !.result = IF auth'.returned.result = "client"
                             THEN "healthy" ELSE "unhealthy"]
    /\ UNCHANGED <<items, before, labels, unsafe_mode, server>>

\* The operator edits the environment / .env file.
SetCredentials ==
    /\ \E c \in CredentialValues \ {auth.credentials} :
          auth' = [auth EXCEPT !.credentials = c]
    /\ UNCHANGED <<items, before, labels, unsafe_mode, last, _keep_client,
                   server>>

NextClient == Connect \/ health_check \/ SetCredentials

SpecClient == InitClient /\ [][NextClient]_vars

\* C28: get_client authenticates once and reuses the client: once a call
\* has returned a client, _keep_client never changes, and every later call
\* returns that client without calling authenticate.  A call that raises
\* leaves _keep_client empty, and a call that finds it empty and finds
\* credentials calls authenticate again.
C28_AuthenticateOnce ==
    [][ /\ _keep_client # NoClient => _keep_client' = _keep_client
        /\ auth'.calls # auth.calls =>
              /\ _keep_client # NoClient =>
                    /\ auth'.returned.result = "client"
                    /\ auth'.returned.client = _keep_client
                    /\ auth'.logins = auth.logins
              /\ auth'.returned.result = "client" =>
                    _keep_client' = auth'.returned.client
              /\ auth'.returned.result # "client" =>
                    _keep_client' = NoClient
              /\ (_keep_client = NoClient /\ auth.credentials # "missing") =>
                    auth'.logins = auth.logins + 1 ]_vars

\* A rejected login, then an accepted one, then a call served from the cache.
C28_Witness ==
    /\ _keep_client # NoClient
    /\ auth.logins >= 2
    /\ auth.calls > auth.logins
    /\ auth.returned.client = _keep_client
    /\ ~auth.returned.authenticated

\* -------------------------------------------------- what keep.sync() sends
\* The backend copy followed: keep.sync() runs at the end of a handler that
\* did not raise, and sends every change the shared client holds.
InitSync ==
    /\ items = [i \in Ids |-> Free]
    /\ before = items
    /\ labels = {"keep-mcp"}
    /\ unsafe_mode = <<>>
    /\ last = Idle
    /\ _keep_client = Connected.returned._keep_client
    /\ auth = Connected
    /\ server = [tracked |-> TRUE, its |-> items]

SyncAdd ==
    \E tr \in {"mcp", "rest"}, new \in 1..PairItems, checked \in BOOLEAN,
       parent \in {Absent} \cup ParentArgs(items) :
        Add(tr, new, "a", checked, parent)

NextSync ==
    \/ Respond
    \/ SyncAdd
    \/ RestUpdateAny

SpecSync == InitSync /\ [][NextSync]_vars

\* The handler of request r run on the list its.
Rerun(r, its) ==
    IF r.op = "add"
    THEN IF r.tr = "mcp"
         THEN note_add_list_item(its, CanModify, r.item_id, r.text[1],
                                 r.checked[1], r.parent_item_id)
         ELSE add_list_item(its, CanModify, r.item_id, r.text[1],
                            r.checked[1], r.parent_item_id)
    ELSE IF r.op = "update"
    THEN IF r.tr = "mcp"
         THEN note_update_list_item(its, CanModify, r.item_id, r.text,
                                    r.checked, r.parent_item_id)
         ELSE update_list_item(its, CanModify, r.item_id, r.text, r.checked,
                               r.parent_item_id)
    ELSE IF r.tr = "mcp"
         THEN note_delete_list_item(its, CanModify, r.item_id)
         ELSE delete_list_item(its, CanModify, r.item_id)

\* C29: a sync persists the effects of successful operations only: what a
\* request that ends in a sync leaves on the backend is what that request
\* alone makes of the list the backend held, with nothing of an earlier
\* request that raised.
C29_FailedNeverPersisted ==
    [][ (server.tracked /\ last = Idle /\ last'.synced) =>
            server'.its = Forget(Rerun(last', server.its).its) ]_vars

\* The request r as the other transport receives it; an add that created no
\* node is rerun with an unused node.
ThroughOther(r, its) ==
    [r EXCEPT !.tr = IF @ = "mcp" THEN "rest" ELSE "mcp",
              !.item_id = IF r.op = "add" /\ @ = NoItem
                          THEN CHOOSE i \in Ids : its[i].status = "free"
                          ELSE @]

\* C30: the MCP tool and the REST endpoint agree: on the same list and the
\* same request both fail, or both succeed and leave every item with the
\* same parent and the same checked value.
C30_TransportsAgree ==
    last.op # "none" =>
        LET other == Rerun(ThroughOther(last, before), before)
            theirs == Forget(other.its)
        IN  /\ (other.result = "ok") <=> (last.result = "ok")
            /\ last.result = "ok" =>
                  \A i \in Ids :
                      /\ theirs[i].status = items[i].status
                      /\ theirs[i].parent_item = items[i].parent_item
                      /\ theirs[i].checked = items[i].checked

\* C31: every operation terminates in every reachable state: the downward
\* cascade of UpdateChecked and the subtree delete of Delete never recurse
\* without end, and a delete calls item.delete() on no item twice.
C31_DownwardTerminates ==
    /\ last.raised_in \notin {"_check_all_children",
                              "_delete_item_with_children"}
    /\ \A j, k \in 1..Len(last.removed) :
          last.removed[j] = last.removed[k] => j = k

====
